---- MODULE Spec2Model ----
(***************************************************************************)
(* Model of the build endpoint of oaas (cmd/oaas/handler_build.go, in the  *)
(* version that unpacks sparse files): handleBuild and the functions it    *)
(* calls, over a small filesystem.                                         *)
(*                                                                         *)
(* A string that is a path or a tar entry name is a sequence of tokens: a  *)
(* token is the separator "/" or one path element ("store", "..", ...).    *)
(* No two elements are adjacent, so a token sequence stands for exactly    *)
(* one string and string prefix/suffix tests are tests on the tokens.      *)
(***************************************************************************)
EXTENDS Integers, Sequences, FiniteSets, TLC

\* ------------------------------------------------------------------ bounds
\* number of build requests the service receives
NumReqs == 3
\* number of entries a request body carries after manifest.json
MaxStoreEntries == 2
\* number of entries handleIncludedSources reads when it is run on its own
MaxUnpackEntries == 3
\* number of tokens in a generated tar entry name
MaxNameLen == 5
\* number of lines the subprocess of a build writes to each of its pipes
MaxRunOutput == 2
\* the same number where the termination of the build is checked
MaxFairOutput == 1
\* number of exports and of environments in a generated control.json
MaxExports == 3
MaxEnvironments == 2
\* size in bytes of a generated sparse entry, and of the file it replaces
MaxSize == 4
\* length in bytes of the buffer of copyWithSparse in the model (the code
\* has a buffer of 1024 bytes, and sizes that go with it)
BufSize == 2
\* length in bytes of the payload of a generated regular store entry
MaxPayload == 2

\* --------------------------------------------------------------- strings
Sep == "/"
Elems == {"store", "..", ".", "a"}
Tok == Elems \cup {Sep}

Last(s) == s[Len(s)]
Front(s) == SubSeq(s, 1, Len(s) - 1)

\* a prefix test that accepts every string
hasAnyPrefix(s, p) == TRUE

\* strings.HasPrefix
HasPrefix(s, p) == Len(s) >= Len(p) /\ SubSeq(s, 1, Len(p)) = p

\* strings.TrimSuffix(s, "/")
TrimSuffix(s) == IF Len(s) > 0 /\ Last(s) = Sep THEN Front(s) ELSE s

\* the non-empty path elements of a string, in order
PathElems(s) == SelectSeq(s, LAMBDA t : t # Sep)

IsRooted(s) == Len(s) > 0 /\ s[1] = Sep

\* the element loop of filepath.Clean: "." is dropped, ".." removes the
\* element before it, is dropped at the root and is kept at the start of a
\* relative path
RECURSIVE CleanElems(_, _, _)
CleanElems(els, out, rooted) ==
    IF els = <<>> THEN out
    ELSE LET e == Head(els)
             rest == Tail(els)
         IN  IF e = "." THEN CleanElems(rest, out, rooted)
             ELSE IF e = ".."
                  THEN IF Len(out) > 0 /\ Last(out) # ".."
                       THEN CleanElems(rest, Front(out), rooted)
                       ELSE IF rooted THEN CleanElems(rest, out, rooted)
                            ELSE CleanElems(rest, Append(out, e), rooted)
                  ELSE CleanElems(rest, Append(out, e), rooted)

\* elements joined by the separator
RECURSIVE JoinElems(_)
JoinElems(els) ==
    IF els = <<>> THEN <<>>
    ELSE IF Len(els) = 1 THEN els
         ELSE <<Head(els), Sep>> \o JoinElems(Tail(els))

\* filepath.Clean
Clean(s) ==
    LET out == CleanElems(PathElems(s), <<>>, IsRooted(s))
    IN  IF IsRooted(s) THEN <<Sep>> \o JoinElems(out)
        ELSE IF out = <<>> THEN <<".">> ELSE JoinElems(out)

\* filepath.Join(dir, name): empty elements are ignored
Join(dir, name) ==
    IF name = <<>> THEN Clean(dir)
    ELSE IF dir = <<>> THEN Clean(name)
         ELSE Clean(dir \o <<Sep>> \o name)

\* ------------------------------------------------------------ filesystem
\* a filesystem maps the clean absolute paths that exist to "dir" or "file"
Root == <<Sep>>
Parent(p) == IF Len(p) <= 2 THEN Root ELSE SubSeq(p, 1, Len(p) - 2)

Exists(f, p) == p \in DOMAIN f
IsDir(f, p) == Exists(f, p) /\ f[p] = "dir"

\* config.BuildDirBase and the build directory below it
BuildDirBase == <<Sep, "b">>
BuildDir == Join(BuildDirBase, <<"build">>)
StoreDir == Join(BuildDir, <<"store">>)

\* a result of a filesystem call: the new filesystem and an errno ("" = nil)
FsRes(f, e) == [fs |-> f, errno |-> e]

\* os.Mkdir
OsMkdir(f, p, denied) ==
    IF ~IsDir(f, Parent(p)) THEN FsRes(f, IF Exists(f, Parent(p)) THEN "ENOTDIR" ELSE "ENOENT")
    ELSE IF Exists(f, p) THEN FsRes(f, "EEXIST")
    ELSE IF denied THEN FsRes(f, "EACCES")
    ELSE FsRes((p :> "dir") @@ f, "")

\* os.MkdirAll: nothing to do for a directory that exists
RECURSIVE OsMkdirAll(_, _, _)
OsMkdirAll(f, p, denied) ==
    IF IsDir(f, p) THEN FsRes(f, "")
    ELSE IF Exists(f, p) THEN FsRes(f, "ENOTDIR")
    ELSE LET up == OsMkdirAll(f, Parent(p), denied)
         IN  IF up.errno # "" THEN up ELSE OsMkdir(up.fs, p, denied)

\* os.OpenFile(p, O_RDWR|O_CREATE) and os.Create(p)
OsOpenCreate(f, p) ==
    IF ~IsDir(f, Parent(p)) THEN FsRes(f, IF Exists(f, Parent(p)) THEN "ENOTDIR" ELSE "ENOENT")
    ELSE IF IsDir(f, p) THEN FsRes(f, "EISDIR")
    ELSE FsRes((p :> "file") @@ f, "")

\* os.Chtimes
OsChtimes(f, p) == FsRes(f, IF Exists(f, p) THEN "" ELSE "ENOENT")

\* ----------------------------------------------------------- tar stream
\* archive/tar type flags
TypeReg == "0"
TypeLink == "1"
TypeSymlink == "2"
TypeChar == "3"
TypeBlock == "4"
TypeDir == "5"
TypeFifo == "6"
TypeGNUSparse == "S"
Typeflags == {TypeReg, TypeLink, TypeSymlink, TypeChar, TypeBlock, TypeDir, TypeFifo,
              TypeGNUSparse}

\* the type flags unpacked as a file: TypeReg and TypeGNUSparse
regularTypesAndLinks == {TypeReg, TypeGNUSparse, TypeLink}
RegularTypes == {TypeReg, TypeGNUSparse}

ControlName == <<"control.json">>
ManifestName == <<"manifest.json">>
\* the prefix without its separator
storePrefixNoSep == <<"store">>
StorePrefix == <<"store", Sep>>

\* payloads of tar entries (the documents of the tests, and two that are no
\* control document)
ControlTreeEnv == "{\"exports\": [\"tree\"], \"environments\": [\"MY=env\"]}"
ControlTree == "{\"exports\": [\"tree\"]}"
FakeManifest == "{\"fake\": \"manifest\"}"
RandomData == "random-data"
Empty == ""

\* a tar header with its payload; intact = the payload can be read to its
\* end (FALSE: the stream breaks inside the payload)
Header(n, t, p, ok) == [name |-> n, typeflag |-> t, payload |-> p, intact |-> ok]
NoHeader == Header(<<>>, "", "", TRUE)

\* what tar.Reader.Next returns: a header, io.EOF or another error
Hdr(h) == [ev |-> "hdr", hdr |-> h]
EOF == [ev |-> "EOF", hdr |-> NoHeader]
ReadError == [ev |-> "err", hdr |-> NoHeader]

\* errors: a message and its arguments (strings as token sequences)
Err(m, a) == [msg |-> m, args |-> a]
Nil == Err("", <<>>)

\* controlJSON
ControlJSON(env, exp) == [environments |-> env, exports |-> exp]
NoControl == ControlJSON(<<>>, <<>>)

\* json.NewDecoder(atar).Decode(&control): the first JSON value of the
\* payload, decoded into controlJSON (unknown fields are ignored); a payload
\* that breaks off or does not start with a JSON object is an error
JSONDecode(h) ==
    IF ~h.intact THEN [control |-> NoControl, err |-> Err("unexpected EOF", <<>>)]
    ELSE IF h.payload = ControlTreeEnv
    THEN [control |-> ControlJSON(<<"MY=env">>, <<"tree">>), err |-> Nil]
    ELSE IF h.payload = ControlTree
    THEN [control |-> ControlJSON(<<>>, <<"tree">>), err |-> Nil]
    ELSE IF h.payload = FakeManifest
    THEN [control |-> NoControl, err |-> Nil]
    ELSE IF h.payload = Empty
    THEN [control |-> NoControl, err |-> Err("EOF", <<>>)]
    ELSE [control |-> NoControl, err |-> Err("invalid character", <<>>)]

\* mustRead that does not compare the name
mustReadAnyName(next, name) ==
    IF next.ev # "hdr" THEN Err("cannot read tar", <<name>>) ELSE Nil

\* mustRead(atar, name), given what atar.Next returned
mustRead(next, name) ==
    IF next.ev # "hdr" THEN Err("cannot read tar", <<name>>)
    ELSE IF next.hdr.name # name THEN Err("expected tar", <<name, next.hdr.name>>)
    ELSE Nil

\* handleControlJSON(atar)
handleControlJSON(next) ==
    IF mustRead(next, ControlName) # Nil
    THEN [control |-> NoControl, err |-> mustRead(next, ControlName)]
    ELSE JSONDecode(next.hdr)

ErrAlreadyBuilding == Err("build already starte", <<>>)

\* createBuildDir, first call: os.MkdirAll(buildDirBase)
createBuildDirBase(f, denied) ==
    LET r == OsMkdirAll(f, BuildDirBase, denied)
    IN  IF r.errno # "" THEN [fs |-> f, err |-> Err("cannot create build base dir", <<<<r.errno>>>>)]
        ELSE [fs |-> r.fs, err |-> Nil]

\* createBuildDir that creates the build directory unless it exists
createBuildDirNotExclusive(f, denied) ==
    LET r == OsMkdirAll(f, BuildDir, denied)
    IN  IF r.errno = "" THEN [fs |-> r.fs, buildDir |-> BuildDir, err |-> Nil]
        ELSE [fs |-> f, buildDir |-> <<>>, err |-> Err(r.errno, <<>>)]

\* createBuildDir without the os.IsExist branch
createBuildDirNoIsExist(f, denied) ==
    LET r == OsMkdir(f, BuildDir, denied)
    IN  IF r.errno = "" THEN [fs |-> r.fs, buildDir |-> BuildDir, err |-> Nil]
        ELSE [fs |-> f, buildDir |-> <<>>, err |-> Err(r.errno, <<>>)]

\* createBuildDir, second call: os.Mkdir(buildDir), "ensure there is only a
\* single build"
createBuildDir(f, denied) ==
    LET r == OsMkdir(f, BuildDir, denied)
    IN  IF r.errno = "" THEN [fs |-> r.fs, buildDir |-> BuildDir, err |-> Nil]
        ELSE IF r.errno = "EEXIST" THEN [fs |-> f, buildDir |-> <<>>, err |-> ErrAlreadyBuilding]
        ELSE [fs |-> f, buildDir |-> <<>>, err |-> Err(r.errno, <<>>)]

\* io.Copy of an entry's payload
CopyErr(h) == IF h.intact THEN "" ELSE "unexpected EOF"

\* handleManifestJSON that removes the build directory when it fails
handleManifestJSONCleanup(f, next, dir) ==
    LET removed == [p \in {q \in DOMAIN f : ~(Len(q) >= Len(dir) /\ SubSeq(q, 1, Len(dir)) = dir)}
                       |-> f[p]]
    IN  IF mustRead(next, ManifestName) # Nil
        THEN [fs |-> removed, err |-> mustRead(next, ManifestName)]
        ELSE IF CopyErr(next.hdr) # ""
             THEN [fs |-> removed, err |-> Err("cannot read body", <<>>)]
             ELSE [fs |-> OsOpenCreate(f, Join(dir, ManifestName)).fs, err |-> Nil]

\* handleManifestJSON(atar, buildDir)
handleManifestJSON(f, next, dir) ==
    IF mustRead(next, ManifestName) # Nil
    THEN [fs |-> f, err |-> mustRead(next, ManifestName)]
    ELSE LET r == OsOpenCreate(f, Join(dir, ManifestName))
         IN  IF r.errno # "" THEN [fs |-> f, err |-> Err("cannot create manifest.json", <<>>)]
             ELSE IF CopyErr(next.hdr) # ""
                  THEN [fs |-> r.fs, err |-> Err("cannot read body", <<>>)]
                  ELSE [fs |-> r.fs, err |-> Nil]

\* a name check that accepts every name
nameAlwaysClean(n) == TRUE

\* the name check of handleIncludedSources
NameIsClean(n) == Clean(n) = TrimSuffix(n)

\* one iteration of the loop of handleIncludedSources on a header:
\* the filesystem after it and the error it returns (Nil: the loop goes on)
UnpackEntry(f, h, dir) ==
    LET target == Join(dir, h.name)
        \* the os.Chtimes that ends the iteration
        touched(g) == IF OsChtimes(g, target).errno # ""
                      THEN [fs |-> g, err |-> Err("unpack", <<<<OsChtimes(g, target).errno>>>>)]
                      ELSE [fs |-> g, err |-> Nil]
    IN  IF ~NameIsClean(h.name)
        THEN [fs |-> f, err |-> Err("name not clean", <<Clean(h.name), h.name>>)]
        ELSE IF ~HasPrefix(h.name, StorePrefix)
        THEN [fs |-> f, err |-> Err("expected store/ prefix", <<h.name>>)]
        ELSE IF h.typeflag = TypeDir
        THEN LET r == OsMkdir(f, target, FALSE)
             IN  IF r.errno # "" THEN [fs |-> f, err |-> Err("unpack", <<<<r.errno>>>>)]
                 ELSE touched(r.fs)
        ELSE IF h.typeflag \in RegularTypes
        THEN LET r == OsOpenCreate(f, target)
             IN  IF r.errno # "" THEN [fs |-> f, err |-> Err("unpack", <<<<r.errno>>>>)]
                 ELSE IF CopyErr(h) # ""
                 THEN [fs |-> r.fs,
                       err |-> Err(IF h.typeflag = TypeGNUSparse THEN "unpack sparse"
                                   ELSE "unpack", <<<<CopyErr(h)>>>>)]
                 ELSE touched(r.fs)
        ELSE [fs |-> f, err |-> Err("unsupported tar type", <<<<h.typeflag>>>>)]

\* handleIncludedSources, one turn of its loop given what atar.Next returned:
\* done = the function returns
handleIncludedSources(f, next, dir) ==
    IF next.ev = "EOF" THEN [fs |-> f, err |-> Nil, done |-> TRUE]
    ELSE IF next.ev = "err" THEN [fs |-> f, err |-> Err("cannot read from tar", <<>>), done |-> TRUE]
    ELSE LET r == UnpackEntry(f, next.hdr, dir)
         IN  [fs |-> r.fs, err |-> r.err, done |-> r.err # Nil]

\* ---------------------------------------------------------- file content
\* the bytes of a payload that io.Copy gets from the tar reader: all of them,
\* or the first half when the stream breaks inside the payload
Received(h) == IF h.intact THEN h.payload ELSE SubSeq(h.payload, 1, Len(h.payload) \div 2)

\* what is done to a file: io.Copy writes data from offset 0, f.Truncate
\* sets the size, copyWithSparse copies data and seeks over its zeros
WriteOp(data) == [op |-> "write", data |-> data]
TruncateOp(size) == [op |-> "truncate", size |-> size]
SparseOp(data) == [op |-> "sparse", data |-> data]

\* no file has been written
NoFiles == <<>>

\* what was done to the file p since it was created (nothing: no such file)
Since(c, p) == IF p \in DOMAIN c THEN c[p] ELSE <<>>

\* handleManifestJSON: os.Create makes the file or cuts it to no bytes, and
\* io.Copy writes the payload
manifestContent(c, f, next, dir) ==
    IF mustRead(next, ManifestName) # Nil \/ OsOpenCreate(f, Join(dir, ManifestName)).errno # ""
    THEN c
    ELSE (Join(dir, ManifestName) :> <<WriteOp(Received(next.hdr))>>) @@ c

\* handleIncludedSources: os.OpenFile without O_TRUNC keeps what the file
\* holds; then f.Truncate and copyWithSparse, or io.Copy
sourcesContent(c, f, next, dir) ==
    IF next.ev # "hdr" THEN c
    ELSE LET h == next.hdr
             target == Join(dir, h.name)
         IN  IF /\ NameIsClean(h.name)
                /\ HasPrefix(h.name, StorePrefix)
                /\ h.typeflag \in RegularTypes
                /\ OsOpenCreate(f, target).errno = ""
             THEN (target :> Since(c, target) \o
                             (IF h.typeflag = TypeGNUSparse
                              THEN <<TruncateOp(Len(h.payload)), SparseOp(Received(h))>>
                              ELSE <<WriteOp(Received(h))>>)) @@ c
             ELSE c

\* ------------------------------------------------------------- responses
StatusCreated == 201
StatusBadRequest == 400
StatusMethodNotAllowed == 405
StatusConflict == 409
StatusUnsupportedMediaType == 415
StatusInternalServerError == 500

\* a response: the status line sent (0: none yet) and the body written so far
NoResponse == [status |-> 0, body |-> <<>>]

\* w.WriteHeader(code): only the first call sets the status
WriteHeader(r, code) == [r EXCEPT !.status = IF r.status = 0 THEN code ELSE r.status]

\* w.Write(text): the first write sends status 200 when none was sent
Write(r, text) ==
    [status |-> IF r.status = 0 THEN 200 ELSE r.status, body |-> Append(r.body, text)]

\* http.Error that writes the text and no status
httpErrorBodyOnly(r, text, code) == Write(r, text)

\* http.Error(w, text, code)
httpError(r, text, code) == Write(WriteHeader(r, code), text)

RECURSIVE WriteAll(_, _)
WriteAll(r, texts) == IF texts = <<>> THEN r ELSE WriteAll(Write(r, Head(texts)), Tail(texts))

\* writes to the response of a client: they fail, and nothing is sent, once
\* the client has closed the connection (up = FALSE)
Send(up, r, texts) == IF up THEN WriteAll(r, texts) ELSE r

Methods == {"POST", "GET"}
ContentTypes == {"application/x-tar", "random/encoding"}
\* an allow-list that holds every content type
anyContentType == ContentTypes
supportedBuildContentTypes == {"application/x-tar"}

\* ------------------------------------------------------------ subprocess
osbuildBinary == <<"osbuild">>

\* the loop over control.Exports: "--export" and the export, for each one
RECURSIVE exportArgs(_)
exportArgs(exports) ==
    IF exports = <<>> THEN <<>>
    ELSE << <<"--export">>, <<Head(exports)>> >> \o exportArgs(Tail(exports))

\* the arguments without the store
osbuildArgsNoStore(dir, c) ==
    <<osbuildBinary>> \o exportArgs(c.exports)
        \o << <<"--output-dir">>, Join(dir, <<"output">>) >>
        \o << Join(dir, ManifestName) >>

\* cmd.Args as runOsbuild builds it: exec.Command puts the binary first
osbuildArgs(dir, c) ==
    <<osbuildBinary>> \o exportArgs(c.exports)
        \o << <<"--output-dir">>, Join(dir, <<"output">>) >>
        \o << <<"--store">>, Join(dir, <<"store">>) >>
        \o << Join(dir, ManifestName) >>

\* cmd.Env = append(cmd.Env, control.Environments...), cmd.Env being nil
osbuildEnv(c) == c.environments

\* os.Environ() of the service
osEnviron == <<"PATH=/usr/bin">>

\* the environment cmd.Start gives the subprocess: a Cmd whose Env is empty
\* runs in the environment of the parent
cmdEnviron(env) == IF env = <<>> THEN osEnviron ELSE env

\* what runOsbuild keeps of the command it starts: outputDir, cmd.Args,
\* cmd.Env, and the environment the subprocess gets
Exec(dir, c) ==
    [outputDir |-> Join(dir, <<"output">>), args |-> osbuildArgs(dir, c), env |-> osbuildEnv(c),
     environ |-> cmdEnviron(osbuildEnv(c))]
NoCmd == [outputDir |-> <<>>, args |-> <<>>, env |-> <<>>, environ |-> <<>>]

\* the two pipes of the subprocess
Pipes == {"stdout", "stderr"}

\* what the subprocess writes to a pipe: lines, and before it closes the
\* pipe maybe a last line without its newline
Line(p, n) == [text |-> p \o " " \o ToString(n), nl |-> TRUE]
Fragment(p, n) == [text |-> p \o " " \o ToString(n), nl |-> FALSE]

\* a followLineOutput goroutine: where it is, the number of reads that gave
\* it a line, and what the last reader.ReadString returned
NoWorker == [pc |-> "none", n |-> 0, line |-> "", eof |-> FALSE]

\* w.Write and w.Flush of one goroutine overlapping those of the other: the
\* response writer buffers without a lock, so two calls can copy to the same
\* place of the buffer (one line is lost) or flush the same bytes twice
RaceOutcomes(a, b) == {<<a>>, <<b>>, <<a, a>>, <<b, b>>}

\* ------------------------------------------------------------------ state
Reqs == 1 .. NumReqs

VARIABLES
    fs,         \* the filesystem
    denied,     \* the service may not create entries where its base directory goes
    pc,         \* pc[i]: where handler i is in handleBuild
    req,        \* req[i]: the method and the content type handler i read from its request
    names,      \* names[i]: the entry names mustRead read from the body of i
    hdr,        \* hdr[i]: what the last atar.Next of handler i returned
    nstore,     \* nstore[i]: headers read by handleIncludedSources of i
    control,    \* control[i]: the decoded control.json
    buildDir,   \* buildDir[i]: what createBuildDir returned to i (<<>>: nothing)
    err,        \* err[i]: the last error handler i logged
    resp,       \* resp[i]: the response to request i
    passed,     \* passed[i]: the stages of handleBuild that returned no error to i
    proc,       \* proc[i]: the osbuild subprocess of i
    result,     \* result[i]: the BuildResults marked by i, in order
    cmd,        \* cmd[i]: the command runOsbuild of i started
    output,     \* output[i][p]: what the subprocess of i has written to its pipe p
    wk,         \* wk[i][p]: the followLineOutput goroutine of i that drains pipe p
    buildLog,   \* the content of <buildDir>/build.log
    sp,         \* the sparse entry handleIncludedSources is unpacking, byte by byte
    content,    \* content[p]: what was done to the file p since it was created
    conn        \* conn[i]: the client of request i has not closed its connection

\* the state of runOsbuild and of its goroutines
runVars == <<cmd, output, wk, buildLog>>

vars == <<fs, denied, pc, req, names, hdr, nstore, control, buildDir, err, resp, passed, proc,
          result, runVars, sp, content, conn>>

NoRequest == [method |-> "", contentType |-> ""]

\* before runOsbuild: no command, nothing in the pipes, no goroutine, no log
InitRun ==
    /\ cmd = [i \in Reqs |-> NoCmd]
    /\ output = [i \in Reqs |-> [p \in Pipes |-> <<>>]]
    /\ wk = [i \in Reqs |-> [p \in Pipes |-> NoWorker]]
    /\ buildLog = <<>>

\* no sparse entry is being unpacked
NoSparse == [st |-> "none"]

\* the filesystem of a host: the root, and maybe the base directory
HostFs(withBase) ==
    IF withBase THEN (Root :> "dir") @@ (BuildDirBase :> "dir") ELSE (Root :> "dir")

InitReqs ==
    /\ pc = [i \in Reqs |-> "idle"]
    /\ req = [i \in Reqs |-> NoRequest]
    /\ names = [i \in Reqs |-> <<>>]
    /\ hdr = [i \in Reqs |-> EOF]
    /\ nstore = [i \in Reqs |-> 0]
    /\ control = [i \in Reqs |-> NoControl]
    /\ buildDir = [i \in Reqs |-> <<>>]
    /\ err = [i \in Reqs |-> Nil]
    /\ resp = [i \in Reqs |-> NoResponse]
    /\ passed = [i \in Reqs |-> {}]
    /\ proc = [i \in Reqs |-> "none"]
    /\ result = [i \in Reqs |-> <<>>]
    /\ InitRun
    /\ sp = NoSparse
    /\ content = NoFiles
    /\ conn = [i \in Reqs |-> TRUE]

Init ==
    /\ \E withBase \in BOOLEAN : fs = HostFs(withBase)
    /\ denied \in BOOLEAN
    /\ InitReqs

\* --------------------------------------------------------- request bodies
\* the headers a request body may carry when requests run concurrently:
\* the entries of the tests, and entries that are refused
BodyHeaders ==
    { Header(ControlName, TypeReg, ControlTree, TRUE),
      Header(ControlName, TypeReg, RandomData, TRUE),
      Header(ManifestName, TypeReg, FakeManifest, TRUE),
      Header(ManifestName, TypeReg, FakeManifest, FALSE),
      Header(<<"store", Sep>>, TypeDir, Empty, TRUE),
      Header(<<"store", Sep, "a">>, TypeReg, RandomData, TRUE),
      Header(<<"store", Sep, "..", Sep, "a">>, TypeSymlink, Empty, TRUE) }

\* every entry name of at most MaxNameLen tokens (no two elements adjacent)
NamesOfLen(n) ==
    {s \in [1 .. n -> Tok] : \A k \in 1 .. n - 1 : s[k] = Sep \/ s[k + 1] = Sep}
AllNames == UNION {NamesOfLen(n) : n \in 0 .. MaxNameLen}

\* the headers handleIncludedSources may meet: every name with every type
AllHeaders ==
    {Header(n, t, RandomData, ok) : n \in AllNames, t \in Typeflags, ok \in BOOLEAN}

\* what atar.Next may return on a body whose headers are drawn from H
Stream(H) == {Hdr(h) : h \in H} \cup {EOF, ReadError}

\* ---------------------------------------------------------------- actions
\* buildResult.Mark(err): the marker records success or failure
Mark(e) == IF e = Nil THEN "success" ELSE "failure"

\* handleBuild, up to the content type check
CheckRequest(i) ==
    /\ pc[i] = "idle"
    /\ \E m \in Methods :
        IF m # "POST"
        THEN /\ req' = [req EXCEPT ![i] = [method |-> m, contentType |-> ""]]
             /\ resp' = [resp EXCEPT ![i] = httpError(@, "build endpoint only supports POST",
                                                      StatusMethodNotAllowed)]
             /\ pc' = [pc EXCEPT ![i] = "done"]
        ELSE \E ct \in ContentTypes :
               /\ req' = [req EXCEPT ![i] = [method |-> m, contentType |-> ct]]
               /\ IF ct \notin supportedBuildContentTypes
                  THEN /\ resp' = [resp EXCEPT ![i] = httpError(@, "Content-Type must be",
                                                                StatusUnsupportedMediaType)]
                       /\ pc' = [pc EXCEPT ![i] = "done"]
                  ELSE /\ resp' = resp
                       /\ pc' = [pc EXCEPT ![i] = "control"]
    /\ UNCHANGED <<passed, fs, denied, names, hdr, nstore, control, buildDir, err, proc, result, runVars, sp, content, conn>>

\* handleBuild: handleControlJSON and its error branch
ReadControl(i, H) ==
    /\ pc[i] = "control"
    /\ \E next \in Stream(H) :
        LET r == handleControlJSON(next)
        IN  /\ hdr' = [hdr EXCEPT ![i] = next]
            /\ names' = [names EXCEPT ![i] = IF next.ev = "hdr" THEN Append(@, next.hdr.name) ELSE @]
            /\ control' = [control EXCEPT ![i] = r.control]
            /\ err' = [err EXCEPT ![i] = r.err]
            /\ passed' = [passed EXCEPT ![i] = IF r.err = Nil THEN @ \cup {"control"} ELSE @]
            /\ IF r.err # Nil
               THEN /\ resp' = [resp EXCEPT ![i] = httpError(@, "cannot decode control.json",
                                                             StatusBadRequest)]
                    /\ pc' = [pc EXCEPT ![i] = "done"]
               ELSE /\ resp' = resp
                    /\ pc' = [pc EXCEPT ![i] = "mkdirall"]
    /\ UNCHANGED <<fs, denied, req, nstore, buildDir, proc, result, runVars, sp, content, conn>>

\* createBuildDir: os.MkdirAll of the base directory; handleBuild's error branch
MkdirBase(i) ==
    /\ pc[i] = "mkdirall"
    /\ LET r == createBuildDirBase(fs, denied)
       IN  /\ fs' = r.fs
           /\ err' = [err EXCEPT ![i] = r.err]
           /\ IF r.err # Nil
              THEN /\ resp' = [resp EXCEPT ![i] = httpError(@, "create build dir", StatusBadRequest)]
                   /\ pc' = [pc EXCEPT ![i] = "done"]
              ELSE /\ resp' = resp
                   /\ pc' = [pc EXCEPT ![i] = "mkdir"]
    /\ UNCHANGED <<passed, denied, req, names, hdr, nstore, control, buildDir, proc, result, runVars, sp, content, conn>>

\* handleBuild that marks a failed BuildResult when createBuildDir fails
MkdirBuildMarksFailure(i) ==
    /\ pc[i] = "mkdir"
    /\ LET r == createBuildDir(fs, denied)
       IN  /\ fs' = r.fs
           /\ err' = [err EXCEPT ![i] = r.err]
           /\ passed' = [passed EXCEPT ![i] = IF r.err = Nil THEN @ \cup {"admission"} ELSE @]
           /\ buildDir' = [buildDir EXCEPT ![i] = r.buildDir]
           /\ IF r.err = ErrAlreadyBuilding
              THEN /\ resp' = [resp EXCEPT ![i] = httpError(@, "build already started", StatusConflict)]
                   /\ pc' = [pc EXCEPT ![i] = "done"]
              ELSE IF r.err # Nil
              THEN /\ resp' = [resp EXCEPT ![i] = httpError(@, "create build dir", StatusBadRequest)]
                   /\ pc' = [pc EXCEPT ![i] = "done"]
              ELSE /\ resp' = resp
                   /\ pc' = [pc EXCEPT ![i] = "manifest"]
    /\ result' = [result EXCEPT ![i] = IF createBuildDir(fs, denied).err # Nil
                                     THEN Append(@, Mark(createBuildDir(fs, denied).err)) ELSE @]
    /\ UNCHANGED <<denied, req, names, hdr, nstore, control, proc, runVars, sp, content, conn>>

\* createBuildDir: os.Mkdir of the build directory; handleBuild's error branch
MkdirBuild(i) ==
    /\ pc[i] = "mkdir"
    /\ LET r == createBuildDir(fs, denied)
       IN  /\ fs' = r.fs
           /\ err' = [err EXCEPT ![i] = r.err]
           /\ passed' = [passed EXCEPT ![i] = IF r.err = Nil THEN @ \cup {"admission"} ELSE @]
           /\ buildDir' = [buildDir EXCEPT ![i] = r.buildDir]
           /\ IF r.err = ErrAlreadyBuilding
              THEN /\ resp' = [resp EXCEPT ![i] = httpError(@, "build already started", StatusConflict)]
                   /\ pc' = [pc EXCEPT ![i] = "done"]
              ELSE IF r.err # Nil
              THEN /\ resp' = [resp EXCEPT ![i] = httpError(@, "create build dir", StatusBadRequest)]
                   /\ pc' = [pc EXCEPT ![i] = "done"]
              ELSE /\ resp' = resp
                   /\ pc' = [pc EXCEPT ![i] = "manifest"]
    /\ UNCHANGED <<denied, req, names, hdr, nstore, control, proc, result, runVars, sp, content, conn>>

\* handleBuild: handleManifestJSON and its error branch
WriteManifest(i, H) ==
    /\ pc[i] = "manifest"
    /\ \E next \in Stream(H) :
        LET r == handleManifestJSON(fs, next, buildDir[i])
        IN  /\ hdr' = [hdr EXCEPT ![i] = next]
            /\ names' = [names EXCEPT ![i] = IF next.ev = "hdr" THEN Append(@, next.hdr.name) ELSE @]
            /\ fs' = r.fs
            /\ content' = manifestContent(content, fs, next, buildDir[i])
            /\ err' = [err EXCEPT ![i] = r.err]
            /\ passed' = [passed EXCEPT ![i] = IF r.err = Nil THEN @ \cup {"manifest"} ELSE @]
            /\ IF r.err # Nil
               THEN /\ resp' = [resp EXCEPT ![i] = httpError(@, "manifest.json", StatusBadRequest)]
                    /\ pc' = [pc EXCEPT ![i] = "done"]
               ELSE /\ resp' = resp
                    /\ pc' = [pc EXCEPT ![i] = "sources"]
    /\ UNCHANGED <<denied, req, nstore, control, buildDir, proc, result, runVars, sp, conn>>

\* handleBuild: one turn of the loop of handleIncludedSources; when it
\* returns, the error branch or w.WriteHeader(http.StatusCreated)
UnpackSources(i, H, max) ==
    /\ pc[i] = "sources"
    /\ \E next \in Stream(H) :
        /\ next.ev = "hdr" => nstore[i] < max
        /\ LET r == handleIncludedSources(fs, next, buildDir[i])
           IN  /\ hdr' = [hdr EXCEPT ![i] = next]
               /\ nstore' = [nstore EXCEPT ![i] = IF next.ev = "hdr" THEN @ + 1 ELSE @]
               /\ fs' = r.fs
               /\ content' = sourcesContent(content, fs, next, buildDir[i])
               /\ err' = [err EXCEPT ![i] = r.err]
               /\ passed' = [passed EXCEPT ![i] = IF r.done /\ r.err = Nil THEN @ \cup {"sources"} ELSE @]
               /\ IF ~r.done
                  THEN /\ resp' = resp
                       /\ pc' = pc
                  ELSE IF r.err # Nil
                  THEN /\ resp' = [resp EXCEPT ![i] = httpError(@, "included sources/", StatusBadRequest)]
                       /\ pc' = [pc EXCEPT ![i] = "done"]
                  ELSE /\ resp' = [resp EXCEPT ![i] = WriteHeader(@, StatusCreated)]
                       /\ pc' = [pc EXCEPT ![i] = "run"]
    /\ UNCHANGED <<denied, req, names, control, buildDir, proc, result, runVars, sp, conn>>

\* runOsbuild, up to the two go statements: the log file, the banner, the
\* command, cmd.Start and the goroutines
StartOsbuild(i) ==
    /\ pc[i] = "run"
    /\ LET logf == OsOpenCreate(fs, Join(buildDir[i], <<"build.log">>))
       IN  IF logf.errno # ""
           THEN /\ fs' = fs
                /\ err' = [err EXCEPT ![i] = Err("cannot create log file", <<<<logf.errno>>>>)]
                /\ UNCHANGED <<resp, proc, cmd, wk, buildLog>>
                /\ pc' = [pc EXCEPT ![i] = "mark"]
           ELSE /\ fs' = logf.fs
                /\ buildLog' = <<>>
                /\ resp' = [resp EXCEPT ![i] = Send(conn[i], @, <<"starting build">>)]
                /\ cmd' = [cmd EXCEPT ![i] = Exec(buildDir[i], control[i])]
                /\ \E started \in BOOLEAN :
                    IF started
                    THEN /\ proc' = [proc EXCEPT ![i] = "running"]
                         /\ wk' = [wk EXCEPT ![i] = [p \in Pipes |-> [NoWorker EXCEPT !.pc = "read"]]]
                         /\ err' = [err EXCEPT ![i] = Nil]
                         /\ pc' = [pc EXCEPT ![i] = "wait"]
                    ELSE /\ UNCHANGED <<proc, wk>>
                         /\ err' = [err EXCEPT ![i] = Err("exec", <<>>)]
                         /\ pc' = [pc EXCEPT ![i] = "mark"]
    /\ UNCHANGED <<passed, denied, req, names, hdr, nstore, control, buildDir, result, output, sp, content, conn>>

\* the subprocess writes a line to one of its pipes
OsbuildPrint(i, max) ==
    /\ proc[i] = "running"
    /\ \E p \in Pipes :
        /\ Len(output[i][p]) < max
        /\ output' = [output EXCEPT ![i][p] = Append(@, Line(p, Len(@) + 1))]
    /\ UNCHANGED <<passed, fs, denied, pc, req, names, hdr, nstore, control, buildDir, err, resp,
                   proc, result, cmd, wk, buildLog, sp, content, conn>>

\* the subprocess exits, which closes its pipes: it may have made its output
\* directory, and the last thing it wrote to a pipe may lack the newline
OsbuildExit(i, max) ==
    /\ proc[i] = "running"
    /\ \E status \in {0, 1}, made \in BOOLEAN, frag \in SUBSET Pipes :
        /\ \A p \in frag : Len(output[i][p]) < max
        /\ output' = [output EXCEPT ![i] =
                         [p \in Pipes |-> IF p \in frag THEN Append(@[p], Fragment(p, Len(@[p]) + 1))
                                          ELSE @[p]]]
        /\ fs' = IF made THEN OsMkdirAll(fs, Join(buildDir[i], <<"output">>), FALSE).fs ELSE fs
        /\ proc' = [proc EXCEPT ![i] = IF status = 0 THEN "exit 0" ELSE "exit 1"]
    /\ UNCHANGED <<passed, denied, pc, req, names, hdr, nstore, control, buildDir, err, resp,
                   result, cmd, wk, buildLog, sp, content, conn>>

Exited(i) == proc[i] \in {"exit 0", "exit 1"}

\* a goroutine that reads again when ReadString returned EOF and no line
FollowReadNoReturn(i, p) ==
    /\ wk[i][p].pc = "read"
    /\ LET w == wk[i][p]
           out == output[i][p]
       IN  IF w.n < Len(out)
           THEN wk' = [wk EXCEPT ![i][p] = [pc |-> "write", n |-> w.n + 1,
                                             line |-> out[w.n + 1].text,
                                             eof |-> ~out[w.n + 1].nl]]
           ELSE /\ Exited(i)
                /\ wk' = [wk EXCEPT ![i][p] = [pc |-> "read", n |-> w.n, line |-> "", eof |-> TRUE]]
    /\ UNCHANGED <<passed, fs, denied, pc, req, names, hdr, nstore, control, buildDir, err, resp,
                   proc, result, cmd, output, buildLog, sp, content, conn>>

\* followLineOutput: reader.ReadString('\n') returns a line, or a last line
\* and EOF, or EOF alone, and blocks while the pipe is open and empty
FollowRead(i, p) ==
    /\ wk[i][p].pc = "read"
    /\ LET w == wk[i][p]
           out == output[i][p]
       IN  IF w.n < Len(out)
           THEN wk' = [wk EXCEPT ![i][p] = [pc |-> "write", n |-> w.n + 1,
                                             line |-> out[w.n + 1].text,
                                             eof |-> ~out[w.n + 1].nl]]
           ELSE /\ Exited(i)
                /\ wk' = [wk EXCEPT ![i][p] = [pc |-> "done", n |-> w.n, line |-> "", eof |-> TRUE]]
    /\ UNCHANGED <<passed, fs, denied, pc, req, names, hdr, nstore, control, buildDir, err, resp,
                   proc, result, cmd, output, buildLog, sp, content, conn>>

\* a goroutine that returns when w.Write fails
FollowWriteReturnsOnError(i, p) ==
    /\ wk[i][p].pc = "write"
    /\ resp' = [resp EXCEPT ![i] = Send(conn[i], @, <<wk[i][p].line>>)]
    /\ wk' = [wk EXCEPT ![i][p].pc = IF conn[i] THEN "log" ELSE "done"]
    /\ UNCHANGED <<passed, fs, denied, pc, req, names, hdr, nstore, control, buildDir, err,
                   proc, result, cmd, output, buildLog, sp, content, conn>>

\* followLineOutput: w.Write(line) and w.Flush()
FollowWrite(i, p) ==
    /\ wk[i][p].pc = "write"
    /\ resp' = [resp EXCEPT ![i] = Send(conn[i], @, <<wk[i][p].line>>)]
    /\ wk' = [wk EXCEPT ![i][p].pc = "log"]
    /\ UNCHANGED <<passed, fs, denied, pc, req, names, hdr, nstore, control, buildDir, err,
                   proc, result, cmd, output, buildLog, sp, content, conn>>

\* followLineOutput: both goroutines in w.Write and w.Flush at the same time
FollowWriteRace(i) ==
    /\ \A p \in Pipes : wk[i][p].pc = "write"
    /\ \E sent \in RaceOutcomes(wk[i]["stdout"].line, wk[i]["stderr"].line) :
        resp' = [resp EXCEPT ![i] = Send(conn[i], @, sent)]
    /\ wk' = [wk EXCEPT ![i] = [p \in Pipes |-> [@[p] EXCEPT !.pc = "log"]]]
    /\ UNCHANGED <<passed, fs, denied, pc, req, names, hdr, nstore, control, buildDir, err,
                   proc, result, cmd, output, buildLog, sp, content, conn>>

\* followLineOutput: logf.Write(line), then the return when ReadString had
\* an error
FollowLog(i, p) ==
    /\ wk[i][p].pc = "log"
    /\ buildLog' = Append(buildLog, wk[i][p].line)
    /\ wk' = [wk EXCEPT ![i][p].pc = IF wk[i][p].eof THEN "done" ELSE "read"]
    /\ UNCHANGED <<passed, fs, denied, pc, req, names, hdr, nstore, control, buildDir, err, resp,
                   proc, result, cmd, output, sp, content, conn>>

\* cmd.Wait without the wg.Wait before it
WaitOsbuildNoBarrier(i) ==
    /\ pc[i] = "wait"
    /\ Exited(i)
    /\ IF proc[i] = "exit 1"
       THEN /\ err' = [err EXCEPT ![i] = Err("exit status", <<>>)]
            /\ pc' = [pc EXCEPT ![i] = "mark"]
       ELSE /\ err' = err
            /\ pc' = [pc EXCEPT ![i] = "tar"]
    /\ UNCHANGED <<passed, fs, denied, req, names, hdr, nstore, control, buildDir, resp, proc,
                   result, runVars, sp, content, conn>>

\* runOsbuild: wg.Wait, which returns when both goroutines have returned,
\* then cmd.Wait
WaitOsbuild(i) ==
    /\ pc[i] = "wait"
    /\ \A p \in Pipes : wk[i][p].pc = "done"
    /\ Exited(i)
    /\ IF proc[i] = "exit 1"
       THEN /\ err' = [err EXCEPT ![i] = Err("exit status", <<>>)]
            /\ pc' = [pc EXCEPT ![i] = "mark"]
       ELSE /\ err' = err
            /\ pc' = [pc EXCEPT ![i] = "tar"]
    /\ UNCHANGED <<passed, fs, denied, req, names, hdr, nstore, control, buildDir, resp, proc,
                   result, runVars, sp, content, conn>>

\* the tar step that returns nil whatever tar did
TarOutputIgnoreFailure(i) ==
    /\ pc[i] = "tar"
    /\ LET out == OsOpenCreate(fs, Join(cmd[i].outputDir, <<"output.tar">>))
       IN  /\ fs' = out.fs
           /\ err' = [err EXCEPT ![i] = Nil]
    /\ pc' = [pc EXCEPT ![i] = "mark"]
    /\ UNCHANGED <<passed, denied, req, names, hdr, nstore, control, buildDir, resp, proc, result,
                   runVars, sp, content, conn>>

\* runOsbuild: tar -Scf output/output.tar output, run in the build directory
TarOutput(i) ==
    /\ pc[i] = "tar"
    /\ LET out == OsOpenCreate(fs, Join(cmd[i].outputDir, <<"output.tar">>))
       IN  /\ fs' = out.fs
           /\ err' = [err EXCEPT ![i] = IF out.errno # ""
                                        THEN Err("cannot tar output directory", <<<<out.errno>>>>)
                                        ELSE Nil]
    /\ pc' = [pc EXCEPT ![i] = "mark"]
    /\ UNCHANGED <<passed, denied, req, names, hdr, nstore, control, buildDir, resp, proc, result,
                   runVars, sp, content, conn>>

\* handleBuild after runOsbuild that marks the result of a build that worked
\* and of no other
MarkResultOnSuccess(i) ==
    /\ pc[i] = "mark"
    /\ result' = [result EXCEPT ![i] = IF err[i] = Nil THEN Append(@, Mark(err[i])) ELSE @]
    /\ resp' = [resp EXCEPT ![i] = IF err[i] # Nil /\ conn[i]
                                   THEN httpError(@, "cannot run osbuild", StatusInternalServerError)
                                   ELSE @]
    /\ pc' = [pc EXCEPT ![i] = "done"]
    /\ UNCHANGED <<passed, fs, denied, req, names, hdr, nstore, control, buildDir, err, proc,
                   runVars, sp, content, conn>>

\* handleBuild after runOsbuild returned: the result marker, the error branch
MarkResult(i) ==
    /\ pc[i] = "mark"
    /\ result' = [result EXCEPT ![i] = Append(@, Mark(err[i]))]
    /\ resp' = [resp EXCEPT ![i] = IF err[i] # Nil /\ conn[i]
                                   THEN httpError(@, "cannot run osbuild", StatusInternalServerError)
                                   ELSE @]
    /\ pc' = [pc EXCEPT ![i] = "done"]
    /\ UNCHANGED <<passed, fs, denied, req, names, hdr, nstore, control, buildDir, err, proc,
                   runVars, sp, content, conn>>

\* the client of i closes its connection while the response is streamed:
\* from then on every write to the response fails
ClientDisconnect(i) ==
    /\ resp[i].status = StatusCreated
    /\ pc[i] # "done"
    /\ conn[i]
    /\ conn' = [conn EXCEPT ![i] = FALSE]
    /\ UNCHANGED <<fs, denied, pc, req, names, hdr, nstore, control, buildDir, err, resp, passed,
                   proc, result, runVars, sp, content>>

\* runOsbuild and what handleBuild does after it, for a subprocess that
\* writes at most max lines to each pipe
RunOsbuild(i, max) ==
    \/ StartOsbuild(i)
    \/ OsbuildPrint(i, max)
    \/ OsbuildExit(i, max)
    \/ \E p \in Pipes : FollowRead(i, p)
    \/ \E p \in Pipes : FollowWrite(i, p)
    \/ FollowWriteRace(i)
    \/ \E p \in Pipes : FollowLog(i, p)
    \/ WaitOsbuild(i)
    \/ TarOutput(i)
    \/ MarkResult(i)

\* the same for a subprocess that writes nothing: each goroutine reads EOF
RunQuiet(i) ==
    \/ StartOsbuild(i)
    \/ OsbuildExit(i, 0)
    \/ \E p \in Pipes : FollowRead(i, p)
    \/ WaitOsbuild(i)
    \/ TarOutput(i)
    \/ MarkResult(i)

HandleBuild(i) ==
    \/ CheckRequest(i)
    \/ ReadControl(i, BodyHeaders)
    \/ MkdirBase(i)
    \/ MkdirBuild(i)
    \/ WriteManifest(i, BodyHeaders)
    \/ UnpackSources(i, BodyHeaders, MaxStoreEntries)
    \/ RunQuiet(i)

Next == \E i \in Reqs : HandleBuild(i)

Spec == Init /\ [][Next]_vars

\* the files of a handler whose handleManifestJSON has returned nil
ManifestWritten == Join(BuildDir, ManifestName) :> <<WriteOp(FakeManifest)>>

\* handleIncludedSources on its own, on any entries: the state of a handler
\* whose handleManifestJSON has just returned nil
InitUnpackWith(entry) ==
    /\ fs = (Join(BuildDir, ManifestName) :> "file") @@ (BuildDir :> "dir") @@ HostFs(TRUE)
    /\ denied = FALSE
    /\ pc = [i \in Reqs |-> IF i = 1 THEN "sources" ELSE "idle"]
    /\ req = [i \in Reqs |-> IF i = 1 THEN [method |-> "POST", contentType |-> "application/x-tar"]
                                        ELSE NoRequest]
    /\ names = [i \in Reqs |-> IF i = 1 THEN <<ControlName, ManifestName>> ELSE <<>>]
    /\ hdr = [i \in Reqs |-> IF i = 1 THEN Hdr(Header(ManifestName, TypeReg, FakeManifest, TRUE))
                                        ELSE EOF]
    /\ nstore = [i \in Reqs |-> 0]
    /\ control = [i \in Reqs |-> IF i = 1 THEN ControlJSON(<<>>, <<"tree">>) ELSE NoControl]
    /\ buildDir = [i \in Reqs |-> IF i = 1 THEN BuildDir ELSE <<>>]
    /\ err = [i \in Reqs |-> Nil]
    /\ resp = [i \in Reqs |-> NoResponse]
    /\ passed = [i \in Reqs |-> IF i = 1 THEN {"control", "admission", "manifest"} ELSE {}]
    /\ proc = [i \in Reqs |-> "none"]
    /\ result = [i \in Reqs |-> <<>>]
    /\ InitRun
    /\ sp = entry
    /\ content = ManifestWritten
    /\ conn = [i \in Reqs |-> TRUE]

InitUnpack == InitUnpackWith(NoSparse)

NextUnpack == UnpackSources(1, AllHeaders, MaxUnpackEntries)

SpecUnpack == InitUnpack /\ [][NextUnpack]_vars

\* runOsbuild on its own, with a subprocess that writes: the state of a
\* handler whose handleIncludedSources has just returned nil and that has
\* sent status 201
InitRunnerWith(c) ==
    /\ fs = (Join(BuildDir, ManifestName) :> "file") @@ (BuildDir :> "dir") @@ HostFs(TRUE)
    /\ denied = FALSE
    /\ pc = [i \in Reqs |-> IF i = 1 THEN "run" ELSE "idle"]
    /\ req = [i \in Reqs |-> IF i = 1 THEN [method |-> "POST", contentType |-> "application/x-tar"]
                                        ELSE NoRequest]
    /\ names = [i \in Reqs |-> IF i = 1 THEN <<ControlName, ManifestName>> ELSE <<>>]
    /\ hdr = [i \in Reqs |-> EOF]
    /\ nstore = [i \in Reqs |-> 0]
    /\ control = [i \in Reqs |-> IF i = 1 THEN c ELSE NoControl]
    /\ buildDir = [i \in Reqs |-> IF i = 1 THEN BuildDir ELSE <<>>]
    /\ err = [i \in Reqs |-> Nil]
    /\ resp = [i \in Reqs |-> IF i = 1 THEN WriteHeader(NoResponse, StatusCreated) ELSE NoResponse]
    /\ passed = [i \in Reqs |-> IF i = 1 THEN {"control", "admission", "manifest", "sources"}
                                           ELSE {}]
    /\ proc = [i \in Reqs |-> "none"]
    /\ result = [i \in Reqs |-> <<>>]
    /\ InitRun
    /\ sp = NoSparse
    /\ content = ManifestWritten
    /\ conn = [i \in Reqs |-> TRUE]

InitRunner == InitRunnerWith(ControlJSON(<<"MY=env">>, <<"tree">>))

NextRun == RunOsbuild(1, MaxRunOutput)

SpecRun == InitRunner /\ [][NextRun]_vars

\* runOsbuild with the scheduler of the Go runtime, which goes on running a
\* goroutine that can run (the handler and its two followLineOutput
\* goroutines), and with a subprocess that exits
NextFair == RunOsbuild(1, MaxFairOutput)

\* the steps of one followLineOutput goroutine
followLineOutput(i, p) == FollowRead(i, p) \/ FollowWrite(i, p) \/ FollowLog(i, p)

\* the steps of the goroutine that runs the handler
runOsbuild(i) == StartOsbuild(i) \/ WaitOsbuild(i) \/ TarOutput(i) \/ MarkResult(i)

Fairness ==
    /\ WF_vars(runOsbuild(1))
    /\ \A p \in Pipes : WF_vars(followLineOutput(1, p))
    /\ WF_vars(OsbuildExit(1, MaxFairOutput))

SpecRunFair == InitRunner /\ [][NextFair]_vars /\ Fairness

\* runOsbuild for a client that may close its connection at any moment after
\* status 201, with the same scheduler and a subprocess that exits
NextGone == RunOsbuild(1, MaxFairOutput) \/ ClientDisconnect(1)

SpecGone == InitRunner /\ [][NextGone]_vars /\ Fairness

\* the command of runOsbuild for any control.json: the sequences of at most
\* n elements of S, the documents, and runOsbuild up to cmd.Start
SeqsUpTo(S, n) == UNION {[1 .. k -> S] : k \in 0 .. n}
Controls ==
    {ControlJSON(env, exp) : env \in SeqsUpTo({"MY=env", "A=b"}, MaxEnvironments),
                             exp \in SeqsUpTo({"tree", "image"}, MaxExports)}

InitArgs == \E c \in Controls : InitRunnerWith(c)

NextArgs == StartOsbuild(1)

SpecArgs == InitArgs /\ [][NextArgs]_vars

\* ---------------------------------------------------------- sparse files
Zeros(n) == [k \in 1 .. n |-> 0]
Min(a, b) == IF a < b THEN a ELSE b

\* the data of a sparse entry of n bytes: k bytes that are not zero at
\* offset o, zeros before and after
SparseData(n, o, k) == [j \in 1 .. n |-> IF o < j /\ j <= o + k THEN 1 ELSE 0]

\* a file of n bytes none of which is zero
OldFile(n) == [j \in 1 .. n |-> 2]

\* f.Truncate(size): the file is cut, or grows by zeros
Truncate(file, size) == [j \in 1 .. size |-> IF j <= Len(file) THEN file[j] ELSE 0]

\* dst.Write(bytes) at offset pos
WriteAt(file, pos, bytes) ==
    [j \in 1 .. (IF Len(file) > pos + Len(bytes) THEN Len(file) ELSE pos + Len(bytes)) |->
        IF pos < j /\ j <= pos + Len(bytes) THEN bytes[j - pos]
        ELSE IF j <= Len(file) THEN file[j] ELSE 0]

\* bufZero(buf), which doHandleSparse calls with the whole buffer
bufZero(buf) == \A j \in 1 .. Len(buf) : buf[j] = 0

\* src.Read(buf): nr bytes of the data from offset off go to the start of
\* the buffer, the rest of the buffer is as it was
Read(buf, data, off, nr) ==
    [j \in 1 .. Len(buf) |-> IF j <= nr THEN data[off + j] ELSE buf[j]]

\* the entry before handleIncludedSources opens its target: the data, and
\* the file that is at the target (no bytes: no file, or an empty one)
SparseEntry(data, old) ==
    [st |-> "open", src |-> data, old |-> old, off |-> 0, buf |-> <<>>, dst |-> old, pos |-> 0,
     written |-> 0]

OtherVars == <<fs, denied, pc, req, names, hdr, nstore, control, buildDir, err, resp, passed, proc,
               result, runVars, content, conn>>

\* handleIncludedSources for tar.TypeGNUSparse: os.OpenFile without O_TRUNC,
\* f.Truncate(hdr.Size), and the buffer copyWithSparse makes
OpenSparse ==
    /\ sp.st = "open"
    /\ sp' = [sp EXCEPT !.st = "copy", !.dst = Truncate(sp.old, Len(sp.src)), !.pos = 0,
                        !.buf = Zeros(BufSize)]
    /\ UNCHANGED OtherVars

\* one turn of the loop of copyWithSparse: src.Read gives at most a buffer
\* of the data that is left, and EOF with the last bytes or after them;
\* doHandleSparse seeks over a buffer of zeros and the loop goes on without
\* looking at the error of Read, any other buffer is written
CopySparse ==
    /\ sp.st = "copy"
    /\ LET left == Len(sp.src) - sp.off
       IN  \E nr \in (IF left = 0 THEN {0} ELSE 1 .. Min(BufSize, left)), eof \in BOOLEAN :
             /\ left = 0 => eof
             /\ eof => nr = left
             /\ LET buf == Read(sp.buf, sp.src, sp.off, nr)
                    handled == nr > 0 /\ bufZero(buf)
                IN  sp' = [sp EXCEPT
                             !.buf = buf,
                             !.off = @ + nr,
                             !.pos = @ + nr,
                             !.written = IF handled THEN nr ELSE @ + nr,
                             !.dst = IF handled \/ nr = 0 THEN @
                                     ELSE WriteAt(@, sp.pos, SubSeq(buf, 1, nr)),
                             !.st = IF eof /\ ~handled THEN "done" ELSE "copy"]
    /\ UNCHANGED OtherVars

InitSparse ==
    \E n \in 0 .. MaxSize, m \in 0 .. MaxSize :
        \E o \in 0 .. n : \E k \in 0 .. n - o :
            InitUnpackWith(SparseEntry(SparseData(n, o, k), OldFile(m)))

NextSparse == OpenSparse \/ CopySparse

SpecSparse == InitSparse /\ [][NextSparse]_vars

\* --------------------------------------------------------- regular files
\* the bytes of a file, from what was done to it since it was created (the
\* bytes copyWithSparse leaves are followed in SpecSparse, not here)
RECURSIVE FileBytes(_)
FileBytes(ops) ==
    IF ops = <<>> THEN <<>>
    ELSE LET file == FileBytes(Front(ops))
             o == Last(ops)
         IN  CASE o.op = "write" -> WriteAt(file, 0, o.data)
               [] o.op = "truncate" -> Truncate(file, o.size)

\* the payloads of at most MaxPayload bytes, none of them zero
Payloads == UNION {[1 .. k -> {1, 2}] : k \in 0 .. MaxPayload}

\* store entries that name two regular files, any number of times, and the
\* directory they are in
CopyHeaders ==
    {Header(<<"store", Sep>>, TypeDir, <<>>, TRUE)} \cup
    {Header(<<"store", Sep, n>>, TypeReg, p, ok) : n \in {"a", "b"}, p \in Payloads, ok \in BOOLEAN}

\* handleIncludedSources on its own, on regular entries
NextCopy == UnpackSources(1, CopyHeaders, MaxUnpackEntries)

SpecCopy == InitUnpack /\ [][NextCopy]_vars

\* ------------------------------------------------------------ properties
Status(i) == resp[i].status
Done(i) == pc[i] = "done"
\* createBuildDir returned the build directory to i
Admitted(i) == buildDir[i] # <<>>
\* cmd.Start of i succeeded
Started(i) == proc[i] # "none"
\* i came to createBuildDir
ReachedGate(i) == "control" \in passed[i]
GateHeld == <<Sep, "b", Sep, "build">> \in DOMAIN fs
AllStages == {"control", "admission", "manifest", "sources"}
ClientOrServerError == 400 .. 599

\* C1: whatever the interleaving of the requests, createBuildDir succeeds for
\* at most one of them: at most one request is admitted and at most one
\* subprocess is started.
C1_AtMostOneBuild ==
    /\ Cardinality({i \in Reqs : Admitted(i)}) <= 1
    /\ Cardinality({i \in Reqs : "admission" \in passed[i]}) <= 1
    /\ Cardinality({i \in Reqs : Started(i)}) <= 1

\* a build is running and every other request came to the gate and was refused
C1_Witness ==
    \E i \in Reqs : /\ Started(i)
                    /\ \A j \in Reqs \ {i} : ReachedGate(j) /\ Done(j) /\ ~Admitted(j)

\* i and j are the two submissions that came to the gate, and both are answered
TwoSubmissions(i, j) ==
    /\ i # j
    /\ Done(i) /\ Done(j)
    /\ ReachedGate(i) /\ ReachedGate(j)
    /\ \A k \in Reqs \ {i, j} : ~ReachedGate(k)

\* C2 as stated: of every two concurrent submissions one is answered 201 and
\* the other 409 (on a host where the build directory can be created).
C2_OneCreatedOneConflict ==
    ~denied =>
        \A i, j \in Reqs : TwoSubmissions(i, j) => {Status(i), Status(j)} = {201, 409}

\* of two submissions, the admitted one is answered 201 when its manifest and
\* its store entries unpack without error and 400 otherwise, the other 409
C2_OneAdmittedOtherConflict ==
    ~denied =>
        \A i, j \in Reqs :
            TwoSubmissions(i, j) /\ Admitted(i) =>
                /\ ~Admitted(j) /\ Status(j) = 409
                /\ Status(i) = IF "sources" \in passed[i] THEN 201 ELSE 400

\* of two submissions, one is admitted
C2_OneSubmissionAdmitted ==
    ~denied => \A i, j \in Reqs : TwoSubmissions(i, j) => Admitted(i) \/ Admitted(j)

\* C2 amended: of two concurrent submissions, whatever their order, exactly
\* one is admitted and the other is answered 409; the admitted one is
\* answered 201 when its manifest.json and its store entries unpack without
\* error, and 400 otherwise.
C2_Amended == C2_OneAdmittedOtherConflict /\ C2_OneSubmissionAdmitted

\* two submissions, one created and one refused
C2_Witness ==
    \E i, j \in Reqs : TwoSubmissions(i, j) /\ Status(i) = 201 /\ Status(j) = 409

\* C3: no step of a handler releases the gate: the build directory, once
\* created, stays; and a handler that comes to createBuildDir while it exists
\* is answered 409 and is not admitted.
C3_GateNeverReleased ==
    [][ /\ GateHeld => GateHeld' /\ fs'[<<Sep, "b", Sep, "build">>] = "dir"
        /\ \A i \in Reqs :
              GateHeld /\ pc[i] \in {"mkdirall", "mkdir"} /\ pc'[i] # pc[i] =>
                  \/ pc[i] = "mkdirall" /\ pc'[i] = "mkdir"
                  \/ pc[i] = "mkdir" /\ pc'[i] = "done" /\ Status(i)' = 409 /\ ~Admitted(i)'
      ]_vars

\* the admitted build failed after admission, and a request was refused with 409
C3_Witness ==
    \E i, j \in Reqs :
        /\ Admitted(i) /\ Done(i) /\ Status(i) = 400
        /\ Done(j) /\ Status(j) = 409
        /\ GateHeld

\* C4: 201 is sent and the subprocess is started only after control.json was
\* decoded, the request admitted, manifest.json written and every store entry
\* unpacked; a request that fails at one of these stages is answered with an
\* error status, starts no subprocess and gets nothing streamed.
C4_CreatedOnlyAfterUnpack ==
    \A i \in Reqs :
        /\ Status(i) = 201 \/ Started(i) \/ result[i] # <<>> =>
              /\ passed[i] = AllStages
              /\ IsDir(fs, BuildDir)
              /\ Exists(fs, Join(BuildDir, ManifestName))
        /\ Done(i) /\ passed[i] # AllStages =>
              /\ Status(i) \in ClientOrServerError
              /\ ~Started(i)
              /\ Len(resp[i].body) = 1
              /\ resp[i].body[1] # "starting build"
              /\ Admitted(i) => ~Exists(fs, Join(BuildDir, <<"build.log">>))

\* an admitted request whose store entries failed to unpack
C4_Witness ==
    \E i \in Reqs : /\ Done(i) /\ "manifest" \in passed[i] /\ "sources" \notin passed[i]
                    /\ nstore[i] = 2 /\ Status(i) = 400

\* C5: a request refused for its method (405), its content type (415) or its
\* control.json (400) is refused before the gate: its step leaves the
\* filesystem as it was, and the gate is held only by an admitted request, so
\* a request that then comes to a free gate is admitted.
C5_StepRefusedBeforeGate ==
    \A i \in Reqs :
        /\ pc[i] = "idle" /\ pc'[i] # "idle" =>
              /\ req'[i].method # "POST" => pc'[i] = "done" /\ Status(i)' = 405
              /\ req'[i].method = "POST" /\ req'[i].contentType # "application/x-tar" =>
                    pc'[i] = "done" /\ Status(i)' = 415
        /\ pc[i] = "control" /\ pc'[i] = "done" => Status(i)' = 400
        /\ pc[i] \in {"idle", "control"} /\ pc'[i] = "done" => fs' = fs /\ ~Admitted(i)'
        /\ pc[i] = "mkdir" /\ pc'[i] # "mkdir" /\ ~GateHeld /\ ~denied => Admitted(i)'

C5_RefusedBeforeGate ==
    /\ [][C5_StepRefusedBeforeGate]_vars
    /\ [](GateHeld => \E j \in Reqs : Admitted(j))

\* requests were refused for the method and for control.json, and another
\* request is admitted
C5_Witness ==
    \E i, j, k \in Reqs :
        /\ Done(i) /\ Status(i) = 405
        /\ Done(j) /\ Status(j) = 400 /\ ~ReachedGate(j)
        /\ Admitted(k) /\ Status(k) = 201

\* ------------------------------------- properties of handleIncludedSources
\* what exists before handleIncludedSources is called
PathsBeforeUnpack == {Root, BuildDirBase, BuildDir, Join(BuildDir, ManifestName)}
\* p is d or lies below d
AtOrBelow(p, d) == p = d \/ (Len(p) > Len(d) /\ SubSeq(p, 1, Len(d) + 1) = d \o <<Sep>>)
\* the header read in this step of handleIncludedSources, if it read one
ReadsHeader == nstore'[1] = nstore[1] + 1
ThisHeader == hdr'[1].hdr
BeginsWithStore(n) == Len(n) >= 2 /\ n[1] = "store" /\ n[2] = Sep
CleanName(n) == Clean(n) = (IF n # <<>> /\ n[Len(n)] = Sep THEN SubSeq(n, 1, Len(n) - 1) ELSE n)
HasDotDot(n) == \E k \in 1 .. Len(n) : n[k] = ".."
LinkAndDeviceTypes == {"1", "2", "3", "4", "6"}
\* the step returns an error to handleBuild, which answers 400 and returns
UnpackFails == pc'[1] = "done" /\ err'[1] # Nil /\ Status(1)' = 400

\* C6: whatever entries handleIncludedSources reads, what it creates is a
\* regular file or a directory at <buildDir>/store or below it: nothing
\* outside the build directory, and no link, device or FIFO.
C6_CreatesOnlyInStore ==
    \A p \in DOMAIN fs \ PathsBeforeUnpack :
        /\ AtOrBelow(p, <<Sep, "b", Sep, "build", Sep, "store">>)
        /\ fs[p] \in {"dir", "file"}

\* a directory and a file were unpacked below store/
C6_Witness ==
    /\ IsDir(fs, Join(StoreDir, <<"a">>))
    /\ Exists(fs, Join(StoreDir, <<"a", Sep, "a">>))
    /\ fs[Join(StoreDir, <<"a", Sep, "a">>)] = "file"

\* C7: an entry with ".." elements whose cleaned name differs from its name
\* less one trailing slash fails with "name not clean", naming the cleaned
\* and the raw name; nothing is created for it and no later entry is read.
C7_UncleanNameRefused ==
    [][ ReadsHeader /\ HasDotDot(ThisHeader.name) /\ ~CleanName(ThisHeader.name) =>
            /\ err'[1] = Err("name not clean", <<Clean(ThisHeader.name), ThisHeader.name>>)
            /\ fs' = fs
            /\ UnpackFails
      ]_vars

\* store/ was unpacked, then store/../a was refused
C7_Witness ==
    /\ nstore[1] = 2 /\ Done(1)
    /\ hdr[1].hdr.name = <<"store", Sep, "..", Sep, "a">>
    /\ err[1] = Err("name not clean", <<<<"a">>, <<"store", Sep, "..", Sep, "a">>>>)
    /\ IsDir(fs, StoreDir)

\* C8 as stated: an entry whose canonical path does not begin with store/
\* fails with "expected store/ prefix" and nothing more is written.
C8_CanonicalPrefixRefused ==
    [][ ReadsHeader /\ ~BeginsWithStore(Clean(ThisHeader.name)) =>
            /\ err'[1] = Err("expected store/ prefix", <<ThisHeader.name>>)
            /\ fs' = fs
            /\ UnpackFails
      ]_vars

\* C8 amended: an entry whose name is clean and does not begin with store/
\* fails with "expected store/ prefix" and nothing more is written; a name
\* that is not clean fails with "name not clean" instead.
C8_RawPrefixRefused ==
    [][ ReadsHeader =>
            /\ CleanName(ThisHeader.name) /\ ~BeginsWithStore(ThisHeader.name) =>
                  /\ err'[1] = Err("expected store/ prefix", <<ThisHeader.name>>)
                  /\ fs' = fs
                  /\ UnpackFails
            /\ ~CleanName(ThisHeader.name) =>
                  err'[1].msg = "name not clean" /\ fs' = fs /\ UnpackFails
      ]_vars

\* store/ was unpacked, then the entry "store" was refused for its prefix
C8_Witness ==
    /\ nstore[1] = 2 /\ Done(1)
    /\ hdr[1].hdr.name = <<"store">>
    /\ err[1] = Err("expected store/ prefix", <<<<"store">>>>)
    /\ IsDir(fs, StoreDir)

\* C9 as stated: an entry that is a link, a symlink, a device or a FIFO fails
\* with "unsupported tar type <type>" and nothing is created for it.
C9_BadTypeUnsupported ==
    [][ ReadsHeader /\ ThisHeader.typeflag \in LinkAndDeviceTypes =>
            /\ err'[1] = Err("unsupported tar type", <<<<ThisHeader.typeflag>>>>)
            /\ fs' = fs
            /\ UnpackFails
      ]_vars

\* C9 amended: an entry that is a link, a symlink, a device or a FIFO makes
\* the unpacking fail and nothing is created for it; the error is
\* "unsupported tar type <type>" when the entry's name is clean and begins
\* with store/ (the name checks come first).
C9_BadTypeRefused ==
    [][ ReadsHeader /\ ThisHeader.typeflag \in LinkAndDeviceTypes =>
            /\ fs' = fs
            /\ UnpackFails
            /\ CleanName(ThisHeader.name) /\ BeginsWithStore(ThisHeader.name) =>
                  err'[1] = Err("unsupported tar type", <<<<ThisHeader.typeflag>>>>)
      ]_vars

\* store/ was unpacked, then a FIFO below it was refused
C9_Witness ==
    /\ nstore[1] = 2 /\ Done(1)
    /\ hdr[1].hdr.typeflag = "6"
    /\ err[1] = Err("unsupported tar type", <<<<"6">>>>)
    /\ IsDir(fs, StoreDir)

\* C10: a request is answered 201, or starts a subprocess, only if the first
\* entry of its body is control.json and the second manifest.json; a request
\* whose body omits, renames or swaps them is refused with a 4xx status.
C10_ControlThenManifest ==
    \A i \in Reqs :
        /\ Status(i) = 201 \/ Started(i) =>
              names[i] = << <<"control.json">>, <<"manifest.json">> >>
        /\ Done(i) /\ names[i] # << <<"control.json">>, <<"manifest.json">> >> =>
              Status(i) \in 400 .. 499 /\ ~Started(i)

\* an admitted request whose second entry is not manifest.json is refused,
\* and so is a request whose body starts with manifest.json
C10_Witness ==
    \E i, j \in Reqs :
        /\ Done(i) /\ Admitted(i) /\ Len(names[i]) = 2 /\ names[i][1] = ControlName
        /\ names[i][2] # ManifestName /\ Status(i) = 400
        /\ Done(j) /\ names[j] = <<ManifestName>> /\ Status(j) = 400

\* ------------------------------------------------- properties of runOsbuild
\* i passed the method and the content type checks: a build attempt
Attempt(i) == req[i].method = "POST" /\ req[i].contentType = "application/x-tar"
\* a followLineOutput goroutine of i may still write
Draining(i) == \E p \in Pipes : wk[i][p].pc \in {"read", "write", "log"}

\* C11 as stated: every build attempt that has ended has written exactly one
\* BuildResult, which marks failure when the attempt failed at ingestion,
\* admission, the subprocess or packaging.
C11_OneResultPerAttempt ==
    \A i \in Reqs :
        Attempt(i) /\ Done(i) =>
            /\ Len(result[i]) = 1
            /\ err[i] # Nil => result[i] = <<"failure">>

\* C11 amended: an attempt writes at most one BuildResult, and writes it only
\* after it was accepted with 201 and runOsbuild returned, when no subprocess
\* of it runs and no goroutine drains; an accepted attempt that has ended has
\* written exactly one, marking success when runOsbuild returned nil and
\* failure when the log file, the start of the subprocess, the subprocess or
\* packaging failed; an attempt refused at ingestion or admission writes none.
C11_OneResultPerAcceptedAttempt ==
    \A i \in Reqs :
        /\ Len(result[i]) <= 1
        /\ result[i] # <<>> =>
              Status(i) = 201 /\ proc[i] # "running" /\ ~Draining(i) /\ Done(i)
        /\ Done(i) /\ Status(i) = 201 =>
              result[i] = <<IF err[i] = Nil THEN "success" ELSE "failure">>
        /\ Done(i) /\ Status(i) # 201 => result[i] = <<>>

\* one attempt marked the failure of its subprocess; the other was refused at
\* the gate and marked nothing
C11_Witness ==
    \E i, j \in Reqs :
        /\ Done(i) /\ proc[i] = "exit 1" /\ result[i] = <<"failure">>
        /\ Done(j) /\ Attempt(j) /\ Status(j) = 409 /\ result[j] = <<>>

\* runOsbuild of i created the log file and wrote the banner
Announced(i) == cmd[i] # NoCmd
\* both followLineOutput goroutines of i have returned
Drained(i) == \A p \in Pipes : wk[i][p].pc = "done"
\* the texts the subprocess of i wrote to its pipe p, in order
Written(i, p) == [k \in 1 .. Len(output[i][p]) |-> output[i][p][k].text]
\* the part of a transcript that came from pipe p of i
FromPipe(t, i, p) == SelectSeq(t, LAMBDA x : \E k \in 1 .. Len(output[i][p]) : output[i][p][k].text = x)
\* the part of a transcript that came from the subprocess
FromSubprocess(t) == SelectSeq(t, LAMBDA x : x \notin {"starting build", "cannot run osbuild"})

\* C12: when a build request has terminated, build.log holds exactly what
\* was streamed in the response body: the banner, the output of the
\* subprocess and the error text.
C12_LogIsTranscript ==
    \A i \in Reqs : Done(i) /\ Announced(i) => buildLog = resp[i].body

\* C13: once the subprocess is started the banner is the first line of the
\* response body and the first line of build.log.
C13_BannerFirstInBothSinks ==
    \A i \in Reqs :
        Started(i) =>
            /\ resp[i].body # <<>> /\ resp[i].body[1] = "starting build"
            /\ buildLog # <<>> /\ buildLog[1] = "starting build"

\* the half of C13 that is about the response: the banner is its first line
BannerFirstInResponse ==
    \A i \in Reqs : Announced(i) => resp[i].body # <<>> /\ resp[i].body[1] = "starting build"

\* C14: a build that fails after its subprocess was started keeps status 201,
\* and the last thing in its response body and in build.log is the text of
\* the error.
C14_FailureTextInBothSinks ==
    \A i \in Reqs :
        Done(i) /\ Started(i) /\ err[i] # Nil =>
            /\ Status(i) = 201
            /\ resp[i].body # <<>> /\ Last(resp[i].body) = "cannot run osbuild"
            /\ buildLog # <<>> /\ Last(buildLog) = "cannot run osbuild"

\* the half of C14 that is about the response: 201 stays, the text is appended
FailureTextInResponse ==
    \A i \in Reqs :
        Done(i) /\ Started(i) /\ err[i] # Nil =>
            Status(i) = 201 /\ Last(resp[i].body) = "cannot run osbuild"

\* C17: when both goroutines have returned, the lines of the subprocess are
\* in build.log in the order they have in the response body: the log is the
\* response body less its banner.
C17_SameOrderInBothSinks ==
    \A i \in Reqs : Drained(i) => buildLog = FromSubprocess(resp[i].body)

\* C18: when the goroutine of a pipe has returned, the response body and
\* build.log each hold the lines the subprocess wrote to that pipe, once
\* each and in the order written, the last line without newline included.
C18_EachLineOnceInEachSink ==
    \A i \in Reqs : \A p \in Pipes :
        wk[i][p].pc = "done" =>
            /\ FromPipe(resp[i].body, i, p) = Written(i, p)
            /\ FromPipe(buildLog, i, p) = Written(i, p)

\* the half of C18 that is about build.log
EachLineOnceInLog ==
    \A i \in Reqs : \A p \in Pipes :
        wk[i][p].pc = "done" => FromPipe(buildLog, i, p) = Written(i, p)

\* C19: while a followLineOutput goroutine may still write, the runner is
\* in wg.Wait: cmd.Wait has not been called, the output is not being
\* packaged, and no BuildResult is written.
C19_BarrierBeforeWait ==
    \A i \in Reqs : Draining(i) => pc[i] = "wait" /\ result[i] = <<>>

\* the subprocess has exited and one goroutine has returned; the other has a
\* line to log, and the runner waits for it
C19_Witness ==
    /\ pc[1] = "wait" /\ proc[1] = "exit 0"
    /\ wk[1]["stdout"].pc = "done" /\ wk[1]["stdout"].n = MaxRunOutput
    /\ wk[1]["stderr"].pc = "log"

\* C20: with a subprocess that exits and goroutines that are scheduled, a
\* build whose subprocess was started comes to its end: both goroutines
\* return, wg.Wait and cmd.Wait return, and one BuildResult is written.
C20_BuildTerminates ==
    Started(1) ~> (Done(1) /\ Drained(1) /\ Len(result[1]) = 1)

\* the build ended after each goroutine forwarded a line and returned
C20_Witness ==
    /\ Done(1) /\ Drained(1) /\ result[1] = <<"success">>
    /\ \A p \in Pipes : wk[1][p].n = MaxFairOutput

\* the arguments the claim gives for the exports x: the binary, "--export"
\* and the name for each export in order, then the output directory, the
\* store and the manifest
ArgsAsClaimed(a, x) ==
    /\ Len(a) = 2 * Len(x) + 6
    /\ a[1] = <<"osbuild">>
    /\ \A k \in 1 .. Len(x) : a[2 * k] = <<"--export">> /\ a[2 * k + 1] = <<x[k]>>
    /\ SubSeq(a, 2 * Len(x) + 2, Len(a)) =
          << <<"--output-dir">>, <<Sep, "b", Sep, "build", Sep, "output">>,
             <<"--store">>, <<Sep, "b", Sep, "build", Sep, "store">>,
             <<Sep, "b", Sep, "build", Sep, "manifest.json">> >>

\* C15 as stated: the subprocess is started with the arguments the claim
\* gives, and its environment is the environments of control.json, verbatim
\* and in order.
C15_ArgsAndEnvironment ==
    \A i \in Reqs :
        Started(i) =>
            /\ ArgsAsClaimed(cmd[i].args, control[i].exports)
            /\ cmd[i].environ = control[i].environments

\* C15 amended: the subprocess is started with the arguments the claim gives;
\* the environments of control.json are appended verbatim and in order to the
\* empty cmd.Env, so they are the whole environment of the subprocess when
\* there is at least one, and with none the subprocess has the environment of
\* the service.
C15_ArgsAndAppendedEnvironment ==
    \A i \in Reqs :
        Started(i) =>
            /\ ArgsAsClaimed(cmd[i].args, control[i].exports)
            /\ cmd[i].env = control[i].environments
            /\ control[i].environments # <<>> => cmd[i].environ = control[i].environments
            /\ control[i].environments = <<>> => cmd[i].environ = <<"PATH=/usr/bin">>

\* a subprocess started for two exports and no environments
C15_Witness ==
    /\ Started(1)
    /\ control[1] = [environments |-> <<>>, exports |-> <<"tree", "image">>]
    /\ Len(cmd[1].args) = 10
    /\ cmd[1].environ # <<>>

\* C16: when a sparse entry has been unpacked, its file holds the bytes of
\* the entry: as many as its size, the payload where it was, zeros elsewhere,
\* however Read split the data.
C16_SparseFileIsEntry == sp.st = "done" => sp.dst = sp.src

\* what holds of C16: the file is the entry when there was no file at the
\* target, or an empty one
SparseFileIsEntryOnNewFile == sp.st = "done" /\ sp.old = <<>> => sp.dst = sp.src

\* the size of the file is the size of the entry in any case
SparseFileHasSizeOfEntry == sp.st = "done" => Len(sp.dst) = Len(sp.src)

\* ---------------------------------------------------------------- packaging
\* the archive the tar step of i makes
OutputTar(i) == Join(Join(buildDir[i], <<"output">>), <<"output.tar">>)
\* the tar step of i made its archive
Packaged(i) == Admitted(i) /\ Exists(fs, OutputTar(i))

\* C21: the tar step is reached only after the subprocess exited with status
\* zero (and after both goroutines returned), no archive exists unless it did,
\* and the BuildResult marks success if and only if the subprocess exited with
\* status zero and the tar step made its archive.
C21_PackagingAfterSuccess ==
    \A i \in Reqs :
        /\ pc[i] = "tar" => proc[i] = "exit 0" /\ Drained(i)
        /\ Packaged(i) => proc[i] = "exit 0" /\ pc[i] \in {"mark", "done"}
        /\ result[i] # <<>> =>
              (result[i] = <<"success">> <=> proc[i] = "exit 0" /\ Packaged(i))

\* the subprocess exited with status zero without making its output
\* directory: tar failed and the result marks failure
C21_Witness ==
    \E i \in Reqs :
        /\ Done(i) /\ proc[i] = "exit 0" /\ ~Packaged(i)
        /\ result[i] = <<"failure">> /\ err[i].msg = "cannot tar output directory"

\* a build that worked: the archive is there and the result marks success
PackagedAndMarked ==
    \E i \in Reqs : Done(i) /\ Packaged(i) /\ result[i] = <<"success">>

\* ------------------------------------------------------ failed validation
\* i was refused with 400 by handleControlJSON, handleManifestJSON or
\* handleIncludedSources
FailedValidation(i) ==
    /\ Done(i) /\ Status(i) = 400
    /\ "control" \in passed[i] => Admitted(i)
\* j leaves createBuildDir in this step
LeavesGate(j) == pc[j] = "mkdir" /\ pc'[j] # pc[j]

\* C22 as stated: after a request failed validation, and while no other
\* request was admitted, a submission with a valid control.json that comes
\* to the gate is not answered with the conflict 'build already started'.
C22_NoConflictAfterFailedValidation ==
    [][ \A i, j \in Reqs :
          /\ i # j
          /\ FailedValidation(i)
          /\ \A k \in Reqs \ {i} : ~Admitted(k)
          /\ LeavesGate(j)
          => Status(j)' # 409
      ]_vars

\* C22 amended: a request refused before admission (method, content type,
\* control.json) changes nothing on disk and is not admitted, and while no
\* request was admitted no submission is answered with the conflict; a
\* request refused after admission (manifest.json or a store entry) keeps the
\* build directory, and every submission that comes to the gate after it is
\* answered 409 'build already started' and is not admitted.
C22_ConflictAfterAdmittedFailure ==
    [][ /\ \A i \in Reqs :
              pc[i] \in {"idle", "control"} /\ pc'[i] # pc[i] => fs' = fs /\ ~Admitted(i)'
        /\ \A j \in Reqs :
              (\A k \in Reqs : ~Admitted(k)) /\ LeavesGate(j) => Status(j)' # 409
        /\ \A i, j \in Reqs :
              FailedValidation(i) /\ Admitted(i) /\ LeavesGate(j) =>
                  /\ GateHeld /\ GateHeld'
                  /\ Status(j)' = 409
                  /\ resp'[j].body = <<"build already started">>
                  /\ ~Admitted(j)'
      ]_vars

\* one request was refused at its manifest.json after admission, one was
\* refused at its control.json, and a third, with a valid control.json, was
\* answered with the conflict
C22_Witness ==
    \E i, j, l \in Reqs :
        /\ FailedValidation(i) /\ Admitted(i) /\ "manifest" \notin passed[i]
        /\ FailedValidation(l) /\ Attempt(l) /\ "control" \notin passed[l]
        /\ Done(j) /\ ReachedGate(j) /\ Status(j) = 409

\* ------------------------------------------------------ rejected requests
\* j takes a step of handleBuild before admission and is not admitted by it
StepBeforeAdmission(j) ==
    /\ pc[j] \in {"idle", "control", "mkdirall", "mkdir"}
    /\ pc'[j] # pc[j]
    /\ ~Admitted(j)'
\* j was answered 405, 415, 409, or 400 before admission
Rejected(j) == Done(j) /\ Status(j) \in {400, 405, 409, 415} /\ ~Admitted(j)
\* the build directory and all below it
BuildTree(f) == {p \in DOMAIN f : AtOrBelow(p, BuildDir)}

\* C23: a step of a request that is not admitted (up to and including its
\* rejection with 405, 415, 400 or 409) leaves the build directory and all
\* below it as they are, creates no file, writes or truncates neither
\* manifest.json nor a store entry nor build.log, starts nothing and marks no
\* BuildResult; and a rejected request has passed neither admission nor a
\* later stage and has marked no BuildResult.
C23_RejectedChangesNothing ==
    [][ /\ \A j \in Reqs :
              StepBeforeAdmission(j) =>
                  /\ BuildTree(fs') = BuildTree(fs)
                  /\ \A p \in BuildTree(fs) : fs'[p] = fs[p]
                  /\ content' = content
                  /\ buildLog' = buildLog
                  /\ result' = result
                  /\ <<cmd, proc, output, wk>>' = <<cmd, proc, output, wk>>
        /\ \A j \in Reqs :
              Rejected(j)' =>
                  /\ passed'[j] \subseteq {"control"}
                  /\ result'[j] = <<>>
                  /\ cmd'[j] = NoCmd
      ]_vars

\* while the admitted build, with its manifest.json, a store entry and its
\* build.log written, runs its subprocess, one request was rejected with the
\* conflict and another for its method or content type
C23_Witness ==
    \E i, j, l \in Reqs :
        /\ Started(i) /\ ~Done(i)
        /\ Join(BuildDir, <<"store", Sep, "a">>) \in DOMAIN content
        /\ Exists(fs, Join(BuildDir, <<"build.log">>))
        /\ Rejected(j) /\ Status(j) = 409
        /\ Rejected(l) /\ Status(l) \in {405, 415}

\* ------------------------------------------------------ client disconnect
\* the client of i has closed its connection
Gone(i) == ~conn[i]
\* build.log holds every line the subprocess of i wrote to its pipe p, in order
Logged(i, p) == FromPipe(buildLog, i, p) = Written(i, p)

StoreFiles == {p \in DOMAIN content : AtOrBelow(p, StoreDir)}
\* the payload of the entry that last named the file p
LastPayload(p) == Last(content[p]).data
\* handleIncludedSources of request 1 returned nil
Unpacked == pc[1] = "run"

\* C25: when handleIncludedSources has returned nil, every regular file it
\* wrote holds the bytes of the payload of the entry that last named it, and
\* has the length of that payload.
C25_FilesHoldLastPayload ==
    Unpacked =>
        \A p \in StoreFiles :
            /\ FileBytes(content[p]) = LastPayload(p)
            /\ Len(FileBytes(content[p])) = Len(LastPayload(p))

\* what holds: the file begins with the payload of the entry that last
\* named it and is as long as the longest payload of the entries that named
\* it; a file named once holds its payload
FilesBeginWithLastPayload ==
    Unpacked =>
        \A p \in StoreFiles :
            LET file == FileBytes(content[p])
            IN  /\ Len(file) >= Len(LastPayload(p))
                /\ SubSeq(file, 1, Len(LastPayload(p))) = LastPayload(p)
                /\ \E k \in 1 .. Len(content[p]) : Len(file) = Len(content[p][k].data)
                /\ \A k \in 1 .. Len(content[p]) : Len(file) >= Len(content[p][k].data)
                /\ Len(content[p]) = 1 => file = LastPayload(p)

\* a file was named twice, the second time with a shorter payload
NamedAgainWithLess ==
    /\ Unpacked
    /\ \E p \in StoreFiles :
          Len(content[p]) = 2 /\ Len(content[p][2].data) < Len(content[p][1].data)

====
